---- MODULE Spec2Model ----
(***************************************************************************)
(* The two tools of src/thevoices/__main__.py as a state machine:          *)
(*   list_available_models  - reads os.environ, litellm.model_list and     *)
(*                            litellm.utils.get_llm_provider               *)
(*   ask_the_voice          - resolves the model, dispatches to            *)
(*                            litellm.completion and extracts the reply    *)
(* Python str values are TLA+ strings; Optional values are None (<<>>) or  *)
(* Some(v) (<<v>>); other Python values are records tagged by "kind".      *)
(***************************************************************************)
EXTENDS Integers, Sequences, FiniteSets, TLC

VARIABLES
    environ,            \* os.environ: a partial map, variable name -> str
    model_list,         \* litellm.model_list: the catalog, a sequence of str
    get_llm_provider,   \* litellm.utils.get_llm_provider: model -> outcome
    last,               \* Optional: the latest list_available_models call
    prev,               \* Optional: the call before it (same process)
    pc,                 \* ask_the_voice: "idle", "in_completion" or "done"
    request,            \* ask_the_voice: Optional arguments of the invocation
    completion_calls,   \* parameter sets handed to completion(), this invocation
    completion_result,  \* Optional: how completion() ended, this invocation
    extracted,          \* whether line 268 ran in this invocation
    outcome             \* Optional: how the invocation of ask_the_voice ended

vars == << environ, model_list, get_llm_provider, last, prev,
           pc, request, completion_calls, completion_result, extracted, outcome >>

list_vars == << model_list, get_llm_provider, last, prev >>
ask_vars == << pc, request, completion_calls, completion_result, extracted, outcome >>

----------------------------------------------------------------------------
(* Bounds of the checked instances *)

MaxSetVars == 2
MaxCatalog == 3

----------------------------------------------------------------------------
(* Python values *)

None == <<>>
Some(v) == <<v>>

\* bool(x) for x : Optional[str]: None and "" are falsy
truthy(opt) == opt # None /\ opt[1] # ""

\* os.environ.get(key)
environ_get(e, key) == IF key \in DOMAIN e THEN Some(e[key]) ELSE None

\* Characters in ascending code point order (the ones the instances use)
codepoints == "-./0123456789:ABCDEFGHIJKLMNOPQRSTUVWXYZ_abcdefghijklmnopqrstuvwxyz"

ord == [c \in {SubSeq(codepoints, i, i) : i \in 1..Len(codepoints)} |->
            CHOOSE i \in 1..Len(codepoints) : SubSeq(codepoints, i, i) = c]

\* str.__lt__: lexicographic by code point, a proper prefix is smaller
RECURSIVE str_lt(_, _)
str_lt(s, t) ==
    IF t = "" THEN FALSE
    ELSE IF s = "" THEN TRUE
    ELSE IF Head(s) = Head(t) THEN str_lt(Tail(s), Tail(t))
    ELSE ord[Head(s)] < ord[Head(t)]

\* list.insert(0, x)
list_insert0(lst, x) == <<x>> \o lst

\* one step of a stable insertion: x goes after every element not greater
RECURSIVE insort(_, _)
insort(sorted, x) ==
    IF sorted = <<>> THEN <<x>>
    ELSE IF str_lt(x, Head(sorted)) THEN <<x>> \o sorted
    ELSE <<Head(sorted)>> \o insort(Tail(sorted), x)

RECURSIVE sort_from(_, _)
sort_from(sorted, rest) ==
    IF rest = <<>> THEN sorted
    ELSE sort_from(insort(sorted, Head(rest)), Tail(rest))

\* variant: the sort of line 75 left out
list_sort_unsorted(lst) == lst

\* list.sort() on a list of str: ascending, stable
list_sort(lst) == sort_from(<<>>, lst)

----------------------------------------------------------------------------
(* list_available_models *)

Str(s) == [kind |-> "str", val |-> s]
List(items) == [kind |-> "list", items |-> items]

provider_key_mapping == <<
    [provider |-> "openai",      keys |-> Str("OPENAI_API_KEY")],
    [provider |-> "anthropic",   keys |-> Str("ANTHROPIC_API_KEY")],
    [provider |-> "vertex_ai",   keys |-> List(<<"VERTEXAI_PROJECT", "VERTEXAI_LOCATION">>)],
    [provider |-> "azure",       keys |-> List(<<"AZURE_API_KEY", "AZURE_API_BASE">>)],
    [provider |-> "cohere",      keys |-> Str("COHERE_API_KEY")],
    [provider |-> "huggingface", keys |-> Str("HUGGINGFACE_API_KEY")],
    [provider |-> "replicate",   keys |-> Str("REPLICATE_API_TOKEN")],
    [provider |-> "together_ai", keys |-> Str("TOGETHERAI_API_KEY")],
    [provider |-> "openrouter",  keys |-> Str("OPENROUTER_API_KEY")],
    [provider |-> "ai21",        keys |-> Str("AI21_API_KEY")],
    [provider |-> "palm",        keys |-> Str("PALM_API_KEY")],
    [provider |-> "bedrock",     keys |-> List(<<"AWS_ACCESS_KEY_ID", "AWS_SECRET_ACCESS_KEY">>)],
    [provider |-> "sagemaker",   keys |-> List(<<"AWS_ACCESS_KEY_ID", "AWS_SECRET_ACCESS_KEY">>)] >>

\* variant: any() in place of all() at line 49
keys_present_any(e, keys) ==
    IF keys.kind = "list"
    THEN \E i \in 1..Len(keys.items) : truthy(environ_get(e, keys.items[i]))
    ELSE truthy(environ_get(e, keys.val))

\* variant: 'key in os.environ', so that an empty value counts as present
keys_present_set(e, keys) ==
    IF keys.kind = "list"
    THEN \A i \in 1..Len(keys.items) : environ_get(e, keys.items[i]) # None
    ELSE environ_get(e, keys.val) # None

\* the test of lines 47-54 for one entry of the table
keys_present(e, keys) ==
    IF keys.kind = "list"
    THEN \A i \in 1..Len(keys.items) : truthy(environ_get(e, keys.items[i]))
    ELSE truthy(environ_get(e, keys.val))

\* the set built by the loop of lines 44-54
available_providers(e) ==
    { provider_key_mapping[i].provider :
        i \in { j \in 1..Len(provider_key_mapping) :
                    keys_present(e, provider_key_mapping[j].keys) } }

\* outcomes of get_llm_provider(model): a 4-tuple, or an exception
Returns(t) == [kind |-> "return", value |-> t]
Raises(type, msg) == [kind |-> "raise", type |-> type, msg |-> msg]

\* the f-string of line 64
qualified(provider, model) == provider \o "/" \o model

\* variant: the loop without the try/except of lines 58-67
RECURSIVE filter_models_uncaught(_, _, _, _)
filter_models_uncaught(acc, ml, glp, avail) ==
    IF ml = <<>> THEN Returns(acc)
    ELSE LET model == Head(ml)
             r == glp[model]
         IN  IF r.kind = "raise" THEN r
             ELSE LET provider == r.value[2]
                  IN  filter_models_uncaught(
                        IF provider \in avail
                        THEN Append(acc, qualified(provider, model)) ELSE acc,
                        Tail(ml), glp, avail)

\* the loop of lines 57-67, from the list built so far
RECURSIVE filter_models(_, _, _, _)
filter_models(acc, ml, glp, avail) ==
    IF ml = <<>> THEN Returns(acc)
    ELSE LET model == Head(ml)
             r == glp[model]
         IN  IF r.kind = "raise" THEN filter_models(acc, Tail(ml), glp, avail)
             ELSE LET provider == r.value[2]
                  IN  filter_models(
                        IF provider \in avail
                        THEN Append(acc, qualified(provider, model)) ELSE acc,
                        Tail(ml), glp, avail)

\* variant: the selected model inserted only if not yet listed
add_current_model_if_new(lst, e) ==
    LET current_model == environ_get(e, "LITELLM_MODEL")
    IN  IF truthy(current_model) /\ \A i \in 1..Len(lst) : lst[i] # current_model[1]
        THEN list_insert0(lst, current_model[1]) ELSE lst

\* lines 69-72
add_current_model(lst, e) ==
    LET current_model == environ_get(e, "LITELLM_MODEL")
    IN  IF truthy(current_model) THEN list_insert0(lst, current_model[1]) ELSE lst

\* the whole function: how a call ends, given what it reads
list_available_models(e, ml, glp) ==
    LET loop == filter_models(<<>>, ml, glp, available_providers(e))
    IN  IF loop.kind = "raise" THEN loop
        ELSE Returns(list_sort(add_current_model(loop.value, e)))

\* A call of the tool
ListAvailableModels ==
    /\ last' = Some([environ |-> environ,
                     available_providers |-> available_providers(environ),
                     result |-> list_available_models(environ, model_list,
                                                      get_llm_provider)])
    /\ prev' = last
    /\ UNCHANGED << environ, model_list, get_llm_provider >>
    /\ UNCHANGED ask_vars

\* The host process changes its environment between two calls (one change
\* at a time; the older call is then no longer kept for comparison)
Putenv(key, value) ==
    /\ last # None /\ last[1].environ = environ
    /\ environ_get(environ, key) # Some(value)
    /\ environ' = [k \in DOMAIN environ \cup {key} |->
                        IF k = key THEN value ELSE environ[k]]
    /\ prev' = None
    /\ UNCHANGED << model_list, get_llm_provider, last >>
    /\ UNCHANGED ask_vars

Unsetenv(key) ==
    /\ last # None /\ last[1].environ = environ
    /\ key \in DOMAIN environ
    /\ environ' = [k \in DOMAIN environ \ {key} |-> environ[k]]
    /\ prev' = None
    /\ UNCHANGED << model_list, get_llm_provider, last >>
    /\ UNCHANGED ask_vars

----------------------------------------------------------------------------
(* ask_the_voice *)

PyNone == [kind |-> "none"]
Obj(cls, attrs) == [kind |-> "obj", cls |-> cls, attrs |-> attrs]

TypeName(v) ==
    IF v.kind = "none" THEN "NoneType"
    ELSE IF v.kind = "obj" THEN v.cls
    ELSE v.kind

\* v.name
getattr(v, name) ==
    IF v.kind = "obj" /\ name \in DOMAIN v.attrs
    THEN Returns(v.attrs[name])
    ELSE Raises("AttributeError",
                "'" \o TypeName(v) \o "' object has no attribute '" \o name \o "'")

\* v[0]
getitem0(v) ==
    IF v.kind = "list"
    THEN IF Len(v.items) > 0 THEN Returns(v.items[1])
         ELSE Raises("IndexError", "list index out of range")
    ELSE IF v.kind = "str"
    THEN IF Len(v.val) > 0 THEN Returns(Str(Head(v.val)))
         ELSE Raises("IndexError", "string index out of range")
    ELSE Raises("TypeError", "'" \o TypeName(v) \o "' object is not subscriptable")

\* dict with d[key] = value added
dict_set(d, key, value) ==
    [k \in DOMAIN d \cup {key} |-> IF k = key THEN value ELSE d[k]]

\* variant: the environment consulted before the argument
selected_model_env_first(model, e) ==
    IF truthy(environ_get(e, "LITELLM_MODEL"))
    THEN environ_get(e, "LITELLM_MODEL") ELSE model

\* line 228: model or os.environ.get("LITELLM_MODEL")
selected_model(model, e) ==
    IF truthy(model) THEN model ELSE environ_get(e, "LITELLM_MODEL")

\* variant: 'selected_model is None'
no_model_is_none(selected) == selected = None

\* line 229: not selected_model
no_model(selected) == ~truthy(selected)

missing_model_error ==
    Raises("ToolError",
           "Missing environment variable: LITELLM_MODEL and no model parameter provided")

\* lines 235-243
prompt(args) ==
    "You are '" \o args.role_title \o "'\n\n"
    \o "# Role Description\n\n"
    \o args.role_description \o "\n\n"
    \o "# Context\n\n"
    \o args.context \o "\n\n"
    \o "# Task\n\n"
    \o args.task

\* variant: 'if temperature:' in place of 'is not None'
completion_params_if_truthy(args, selected) ==
    LET base == [model |-> selected,
                 messages |-> << [role |-> "system", content |-> prompt(args)],
                                 [role |-> "user",
                                  content |-> "Please respond based on the above instructions."] >>]
    IN  IF args.temperature # None /\ args.temperature[1] # 0
        THEN dict_set(base, "temperature", args.temperature[1])
        ELSE base

\* lines 247-260; temperature is None or Some(tenths)
completion_params(args, selected) ==
    LET base == [model |-> selected,
                 messages |-> << [role |-> "system", content |-> prompt(args)],
                                 [role |-> "user",
                                  content |-> "Please respond based on the above instructions."] >>]
    IN  IF args.temperature # None
        THEN dict_set(base, "temperature", args.temperature[1])
        ELSE base

\* classes that "except Exception" does not catch
NotExceptions == {"KeyboardInterrupt", "SystemExit", "GeneratorExit"}

\* variant: the cause left out of the message
request_failed_plain(e) ==
    IF e.type \in NotExceptions THEN e
    ELSE Raises("ToolError", "LLM request failed")

\* lines 263-264
request_failed(e) ==
    IF e.type \in NotExceptions THEN e
    ELSE Raises("ToolError", "LLM request failed: " \o e.msg)

\* line 268: response.choices[0].message.content
content_of(response) ==
    LET choices == getattr(response, "choices")
    IN  IF choices.kind = "raise" THEN choices
        ELSE LET first == getitem0(choices.value)
             IN  IF first.kind = "raise" THEN first
                 ELSE LET message == getattr(first.value, "message")
                      IN  IF message.kind = "raise" THEN message
                          ELSE getattr(message.value, "content")

\* lines 267-271
extract(response) ==
    LET content == content_of(response)
    IN  IF content.kind = "raise"
        THEN IF content.type \in {"AttributeError", "IndexError"}
             THEN Raises("ToolError", "Unexpected response format: " \o content.msg)
             ELSE content
        ELSE Returns(IF content.value.kind # "none" THEN content.value ELSE Str(""))

\* The tool is invoked: lines 227-262, up to the call of completion()
AskTheVoice(args) ==
    /\ pc # "in_completion"
    /\ request' = Some(args)
    /\ completion_result' = None
    /\ extracted' = FALSE
    /\ LET selected == selected_model(args.model, environ)
       IN  IF no_model(selected)
           THEN /\ completion_calls' = <<>>
                /\ outcome' = Some(missing_model_error)
                /\ pc' = "done"
           ELSE /\ completion_calls' = << completion_params(args, selected[1]) >>
                /\ outcome' = None
                /\ pc' = "in_completion"
    /\ UNCHANGED environ
    /\ UNCHANGED list_vars

\* completion() raises e: lines 263-264
CompletionRaises(e) ==
    /\ pc = "in_completion"
    /\ completion_result' = Some(e)
    /\ outcome' = Some(request_failed(e))
    /\ pc' = "done"
    /\ UNCHANGED << request, completion_calls, extracted >>
    /\ UNCHANGED environ
    /\ UNCHANGED list_vars

\* completion() returns response: lines 266-271
CompletionReturns(response) ==
    /\ pc = "in_completion"
    /\ completion_result' = Some(Returns(response))
    /\ extracted' = TRUE
    /\ outcome' = Some(extract(response))
    /\ pc' = "done"
    /\ UNCHANGED << request, completion_calls >>
    /\ UNCHANGED environ
    /\ UNCHANGED list_vars

----------------------------------------------------------------------------
(* Instances *)

CredentialVars ==
    UNION { IF provider_key_mapping[i].keys.kind = "list"
            THEN { provider_key_mapping[i].keys.items[j] :
                        j \in 1..Len(provider_key_mapping[i].keys.items) }
            ELSE { provider_key_mapping[i].keys.val } :
            i \in 1..Len(provider_key_mapping) }

CredentialValues == {"", "k"}

PartialMaps(D, V, n) ==
    UNION { [S -> V] : S \in { T \in SUBSET D : Cardinality(T) <= n } }

IdleAsk ==
    /\ pc = "idle"
    /\ request = None
    /\ completion_calls = <<>>
    /\ completion_result = None
    /\ extracted = FALSE
    /\ outcome = None

\* Provider resolution: any environment with at most MaxSetVars credential
\* variables set, the catalog of the two-model scenario
InitResolve ==
    /\ environ \in PartialMaps(CredentialVars, CredentialValues, MaxSetVars)
    /\ model_list = <<"gpt-4", "claude-3">>
    /\ get_llm_provider =
            [m \in {"gpt-4", "claude-3"} |->
                IF m = "gpt-4" THEN Returns(<<m, "openai", None, None>>)
                ELSE Returns(<<m, "anthropic", None, None>>)]
    /\ last = None
    /\ prev = None
    /\ IdleAsk

NextResolve ==
    \/ ListAvailableModels
    \/ \E key \in CredentialVars, value \in CredentialValues :
            /\ Cardinality(DOMAIN environ \cup {key}) <= MaxSetVars
            /\ Putenv(key, value)
    \/ \E key \in CredentialVars : Unsetenv(key)

SpecResolve == InitResolve /\ [][NextResolve]_vars

\* Catalog filter: catalogs of at most MaxCatalog entries over two model
\* names, any behaviour of the provider lookup on them, environments over
\* two credential variables and the selected model
ModelNames == {"a", "b"}

Catalogs == UNION { [1..n -> ModelNames] : n \in 0..MaxCatalog }

LookupChoices == {"openai", "anthropic", "groq", "raise"}

Lookup(m, choice) ==
    IF choice = "raise"
    THEN Raises("BadRequestError", "LLM Provider NOT provided")
    ELSE Returns(<<m, choice, None, None>>)

Lookups ==
    { [m \in ModelNames |-> Lookup(m, c[m])] : c \in [ModelNames -> LookupChoices] }

SelectedModels == {"", "openai/a", "zz"}

ListEnvValues(key) ==
    IF key = "LITELLM_MODEL" THEN SelectedModels
    ELSE IF key = "OPENAI_API_KEY" THEN CredentialValues
    ELSE {"k"}

ListEnvs ==
    LET keys == {"OPENAI_API_KEY", "ANTHROPIC_API_KEY", "LITELLM_MODEL"}
    IN  { e \in PartialMaps(keys, SelectedModels \cup CredentialValues,
                            Cardinality(keys)) :
            \A k \in DOMAIN e : e[k] \in ListEnvValues(k) }

InitList ==
    /\ environ \in ListEnvs
    /\ model_list \in Catalogs
    /\ get_llm_provider \in Lookups
    /\ last = None
    /\ prev = None
    /\ IdleAsk

NextList ==
    \/ ListAvailableModels
    \/ \E value \in SelectedModels : Putenv("LITELLM_MODEL", value)
    \/ Unsetenv("LITELLM_MODEL")

SpecList == InitList /\ [][NextList]_vars

\* Persona requests: the model argument absent, empty or given; the
\* temperature absent, 0.0 or 0.7 (in tenths); two persona texts
Personas ==
    { [role_title |-> "The Reviewer", role_description |-> "X",
       context |-> "Y", task |-> "Z"],
      [role_title |-> "", role_description |-> "", context |-> "", task |-> ""] }

Requests ==
    { [role_title |-> p.role_title, role_description |-> p.role_description,
       context |-> p.context, task |-> p.task,
       model |-> m, temperature |-> t] :
        p \in Personas, m \in {None, Some(""), Some("m1")},
        t \in {None, Some(0), Some(7)} }

\* what completion() may raise
Failures ==
    { Raises("Timeout", "timeout"),
      Raises("AuthenticationError", "invalid api key") }

Message(content) == Obj("Message", [role |-> Str("assistant"), content |-> content])
Choice(message) == Obj("Choices", [index |-> Str("0"), message |-> message])
Response(choices) == Obj("ModelResponse", [id |-> Str("r"), choices |-> choices])

\* what completion() may return
Responses ==
    { Response(List(<< Choice(Message(Str("hi"))) >>)),
      Response(List(<< Choice(Message(Str(""))) >>)),
      Response(List(<< Choice(Message(PyNone)) >>)),
      Response(List(<< Choice(Message(Str("hi"))), Choice(Message(Str("yo"))) >>)),
      Response(List(<< Choice(Obj("Message", [role |-> Str("assistant")])) >>)),
      Response(List(<< Choice(PyNone) >>)),
      Response(List(<< Obj("Choices", [index |-> Str("0")]) >>)),
      Response(List(<< PyNone >>)),
      Response(List(<< >>)),
      Response(PyNone),
      Obj("ModelResponse", [id |-> Str("r")]),
      PyNone }

InitAsk ==
    /\ environ \in PartialMaps({"LITELLM_MODEL"}, {"", "m2"}, 1)
    /\ model_list = <<>>
    /\ get_llm_provider = [m \in ModelNames |-> Lookup(m, "raise")]
    /\ last = None
    /\ prev = None
    /\ IdleAsk

NextAsk ==
    \/ \E args \in Requests : AskTheVoice(args)
    \/ \E e \in Failures : CompletionRaises(e)
    \/ \E response \in Responses : CompletionReturns(response)

SpecAsk == InitAsk /\ [][NextAsk]_vars

----------------------------------------------------------------------------
(* Claims about provider resolution, checked under SpecResolve *)

\* what the table requires of a provider, as a set of variable names
RequiredVars(entry) ==
    IF entry.keys.kind = "list"
    THEN { entry.keys.items[j] : j \in 1..Len(entry.keys.items) }
    ELSE { entry.keys.val }

Entries == { provider_key_mapping[i] : i \in 1..Len(provider_key_mapping) }

SetNonEmpty(e, key) == key \in DOMAIN e /\ e[key] # ""

\* C1: in every call of list_available_models, each provider of the table
\* is in the available set if and only if every one of its required
\* variables is set to a non-empty string in the environment the call read
\* (unset and "" both count as absent; one missing variable of a
\* multi-variable provider makes it unavailable).
C1_AvailableIffAllRequiredSet ==
    last # None =>
        \A entry \in Entries :
            entry.provider \in last[1].available_providers
                <=> \A key \in RequiredVars(entry) :
                        SetNonEmpty(last[1].environ, key)

\* a call that saw one variable of vertex_ai set and the other empty (and
\* left it out), while a provider with its single variable set was listed
C1_Witness ==
    /\ last # None
    /\ SetNonEmpty(last[1].environ, "VERTEXAI_PROJECT")
    /\ "VERTEXAI_LOCATION" \in DOMAIN last[1].environ
    /\ last[1].environ["VERTEXAI_LOCATION"] = ""
    /\ "vertex_ai" \notin last[1].available_providers

\* two consecutive calls whose environments differ only in variable key,
\* which the first call saw non-empty and the second absent or empty
OnlyFlipped(key) ==
    /\ prev # None /\ last # None
    /\ SetNonEmpty(prev[1].environ, key)
    /\ ~SetNonEmpty(last[1].environ, key)
    /\ \A k \in (DOMAIN prev[1].environ \cup DOMAIN last[1].environ) \ {key} :
            environ_get(prev[1].environ, k) = environ_get(last[1].environ, k)

\* C2 as stated: changing only a required variable X of an available
\* provider P to absent or empty removes exactly P from the available set.
C2_RemovesExactlyThatProvider ==
    \A entry \in Entries : \A key \in RequiredVars(entry) :
        (OnlyFlipped(key) /\ entry.provider \in prev[1].available_providers)
            => last[1].available_providers
                    = prev[1].available_providers \ {entry.provider}

\* C2 amended: changing only a required variable X of an available provider
\* P to absent or empty removes from the available set P and every other
\* available provider that requires X (bedrock and sagemaker require the
\* same two variables); the availability of every provider that does not
\* require X is unchanged.
C2_RemovesProvidersRequiringVar ==
    \A entry \in Entries : \A key \in RequiredVars(entry) :
        (OnlyFlipped(key) /\ entry.provider \in prev[1].available_providers)
            => last[1].available_providers
                    = prev[1].available_providers
                        \ { other.provider : other \in
                                { o \in Entries : key \in RequiredVars(o) } }

\* a flip of AWS_ACCESS_KEY_ID took bedrock and sagemaker, which both
\* require it, out of the set
C2_Witness ==
    /\ OnlyFlipped("AWS_ACCESS_KEY_ID")
    /\ prev[1].available_providers = {"bedrock", "sagemaker"}
    /\ last[1].available_providers = {}

----------------------------------------------------------------------------
(* Claims about the catalog filter, checked under SpecList *)

Count(x, lst) == Cardinality({ i \in 1..Len(lst) : lst[i] = x })

Elems(lst) == { lst[i] : i \in 1..Len(lst) }

\* catalog positions whose provider lookup returns a provider of avail
Emitting(avail) ==
    { i \in 1..Len(model_list) :
        /\ get_llm_provider[model_list[i]].kind = "return"
        /\ get_llm_provider[model_list[i]].value[2] \in avail }

EmittedAt(i) ==
    get_llm_provider[model_list[i]].value[2] \o "/" \o model_list[i]

SelectedIn(e) == IF SetNonEmpty(e, "LITELLM_MODEL") THEN {e["LITELLM_MODEL"]} ELSE {}

\* C8: a call never fails, and its output holds exactly one 'provider/model'
\* per catalog entry whose provider lookup returns an available provider
\* (plus the selected model, if set): entries whose lookup raises, and
\* entries of providers that are not available, contribute nothing and do
\* not disturb the entries around them.
C8_UninferableEntriesSkipped ==
    last # None =>
        /\ last[1].result.kind = "return"
        /\ LET out == last[1].result.value
               from == Emitting(last[1].available_providers)
               sel == SelectedIn(last[1].environ)
           IN  \A s \in Elems(out) \cup { EmittedAt(i) : i \in from } \cup sel :
                    Count(s, out)
                        = Cardinality({ i \in from : EmittedAt(i) = s })
                            + Cardinality(sel \cap {s})

\* a catalog in which an entry whose lookup raises precedes an entry that
\* was emitted
C8_Witness ==
    /\ last # None
    /\ last[1].result.kind = "return"
    /\ \E i, j \in 1..Len(model_list) :
        /\ i < j
        /\ get_llm_provider[model_list[i]].kind = "raise"
        /\ j \in Emitting(last[1].available_providers)
        /\ EmittedAt(j) \in Elems(last[1].result.value)

\* C9: the list a call returns is in ascending lexicographic order, also
\* when the selected model was inserted at index 0 before the sort.
C9_OutputSorted ==
    (last # None /\ last[1].result.kind = "return") =>
        LET out == last[1].result.value
        IN  \A i, j \in 1..Len(out) : i < j => ~str_lt(out[j], out[i])

\* the selected model was inserted in front of catalog entries that sort
\* before it, and of a catalog that was itself out of order
C9_Witness ==
    /\ last # None
    /\ last[1].result.kind = "return"
    /\ SetNonEmpty(last[1].environ, "LITELLM_MODEL")
    /\ LET out == last[1].result.value
       IN  /\ Len(out) >= 3
           /\ str_lt(out[1], last[1].environ["LITELLM_MODEL"])
    /\ \E i, j \in Emitting(last[1].available_providers) :
            i < j /\ str_lt(EmittedAt(j), EmittedAt(i))

\* two consecutive calls, one with LITELLM_MODEL set to the non-empty value
\* v and one with it unset, the environment otherwise the same
WithAndWithout(with, without, v) ==
    /\ SetNonEmpty(with.environ, "LITELLM_MODEL")
    /\ with.environ["LITELLM_MODEL"] = v
    /\ "LITELLM_MODEL" \notin DOMAIN without.environ
    /\ \A k \in (DOMAIN with.environ \cup DOMAIN without.environ) \ {"LITELLM_MODEL"} :
            environ_get(with.environ, k) = environ_get(without.environ, k)

\* C10: when LITELLM_MODEL is set to a non-empty V, V is in the output of
\* the call whatever the catalog and the available providers; and the
\* output holds V once more than the output of the same call with
\* LITELLM_MODEL unset (a V already emitted from the catalog is kept, so V
\* is duplicated).
C10_SelectedModelListed ==
    /\ (last # None /\ SetNonEmpty(last[1].environ, "LITELLM_MODEL"))
            => /\ last[1].result.kind = "return"
               /\ last[1].environ["LITELLM_MODEL"] \in Elems(last[1].result.value)
    /\ (prev # None /\ last # None) =>
            \A v \in SelectedModels :
                /\ WithAndWithout(prev[1], last[1], v)
                    => Count(v, prev[1].result.value)
                            = Count(v, last[1].result.value) + 1
                /\ WithAndWithout(last[1], prev[1], v)
                    => Count(v, last[1].result.value)
                            = Count(v, prev[1].result.value) + 1

\* V was emitted from the catalog by the call without LITELLM_MODEL, and
\* the call with LITELLM_MODEL = V lists it once more
C10_Witness ==
    /\ prev # None /\ last # None
    /\ \E v \in SelectedModels :
        /\ WithAndWithout(last[1], prev[1], v)
        /\ Count(v, prev[1].result.value) >= 1
        /\ Count(v, last[1].result.value) = Count(v, prev[1].result.value) + 1

----------------------------------------------------------------------------
(* Claims about ask_the_voice, checked under SpecAsk *)

HasPrefix(s, p) == Len(s) >= Len(p) /\ SubSeq(s, 1, Len(p)) = p

Contains(s, sub) ==
    \E i \in 1..(Len(s) - Len(sub) + 1) : SubSeq(s, i, i + Len(sub) - 1) = sub

Dispatched == Len(completion_calls) = 1

\* C3: an invocation with no model argument, while LITELLM_MODEL is unset
\* or empty, ends with the configuration error and completion() is not
\* called in it.
C3_NoModelIsConfigurationError ==
    (/\ request # None
     /\ request[1].model = None
     /\ ~SetNonEmpty(environ, "LITELLM_MODEL"))
        => /\ pc = "done"
           /\ outcome = Some(missing_model_error)
           /\ completion_calls = <<>>
           /\ completion_result = None

\* no model argument and LITELLM_MODEL set to the empty string
C3_Witness ==
    /\ request # None
    /\ request[1].model = None
    /\ environ_get(environ, "LITELLM_MODEL") = Some("")
    /\ pc = "done"
    /\ outcome = Some(missing_model_error)

\* C4 as stated: the model handed to completion() is the model argument
\* whenever one is given, whatever LITELLM_MODEL is; LITELLM_MODEL is used
\* only when no model argument is given; the configuration error is raised
\* only when neither is present.
C4_ArgumentWheneverGiven ==
    request # None =>
        LET model == request[1].model
        IN  /\ model # None
                => Dispatched /\ completion_calls[1].model = model[1]
            /\ (model = None /\ SetNonEmpty(environ, "LITELLM_MODEL"))
                => Dispatched /\ completion_calls[1].model = environ["LITELLM_MODEL"]
            /\ outcome = Some(missing_model_error)
                => model = None /\ ~SetNonEmpty(environ, "LITELLM_MODEL")

\* C4 amended: the model handed to completion() is the model argument
\* whenever a non-empty one is given, whatever LITELLM_MODEL is; when the
\* model argument is absent or the empty string, the value of LITELLM_MODEL
\* is used if it is set and non-empty; the configuration error is raised
\* exactly when the argument is absent or empty and LITELLM_MODEL is unset or
\* empty.
C4_NonEmptyArgumentThenEnvironment ==
    request # None =>
        LET model == request[1].model
            given == model # None /\ model[1] # ""
        IN  /\ given
                => Dispatched /\ completion_calls[1].model = model[1]
            /\ (~given /\ SetNonEmpty(environ, "LITELLM_MODEL"))
                => Dispatched /\ completion_calls[1].model = environ["LITELLM_MODEL"]
            /\ outcome = Some(missing_model_error)
                <=> (~given /\ ~SetNonEmpty(environ, "LITELLM_MODEL"))

\* a model argument given while LITELLM_MODEL holds another model
C4_Witness ==
    /\ request # None
    /\ request[1].model = Some("m1")
    /\ environ_get(environ, "LITELLM_MODEL") = Some("m2")
    /\ Dispatched
    /\ completion_calls[1].model = "m1"

\* C5: the parameter set handed to completion() has no temperature key
\* when the temperature argument is omitted, and has temperature with
\* exactly the supplied value when one is supplied, 0.0 included.
C5_TemperatureOnlyIfSupplied ==
    (request # None /\ Dispatched) =>
        LET params == completion_calls[1]
            temperature == request[1].temperature
        IN  IF temperature = None
            THEN "temperature" \notin DOMAIN params
            ELSE /\ "temperature" \in DOMAIN params
                 /\ params["temperature"] = temperature[1]

\* a temperature of 0.0 was supplied and dispatched
C5_Witness ==
    /\ request # None
    /\ request[1].temperature = Some(0)
    /\ Dispatched
    /\ "temperature" \in DOMAIN completion_calls[1]
    /\ completion_calls[1]["temperature"] = 0

\* the response has a first choice with a message with a content field
FieldPresent(response) ==
    /\ response.kind = "obj"
    /\ "choices" \in DOMAIN response.attrs
    /\ response.attrs.choices.kind = "list"
    /\ Len(response.attrs.choices.items) > 0
    /\ LET first == response.attrs.choices.items[1]
       IN  /\ first.kind = "obj"
           /\ "message" \in DOMAIN first.attrs
           /\ first.attrs.message.kind = "obj"
           /\ "content" \in DOMAIN first.attrs.message.attrs

FieldOf(response) == response.attrs.choices.items[1].attrs.message.attrs.content

\* C6: after completion() returned, the invocation returns the first
\* choice's message content if the response has it ("" if it is null), and
\* for every response without that field it fails with the 'unexpected
\* response format' error and in no other way.
C6_OutcomeByResponseShape ==
    (/\ pc = "done"
     /\ completion_result # None
     /\ completion_result[1].kind = "return")
        => LET response == completion_result[1].value
           IN  IF FieldPresent(response)
               THEN outcome = Some(Returns(IF FieldOf(response).kind = "none"
                                           THEN Str("") ELSE FieldOf(response)))
               ELSE /\ outcome[1].kind = "raise"
                    /\ outcome[1].type = "ToolError"
                    /\ HasPrefix(outcome[1].msg, "Unexpected response format")

\* C7: whenever completion() raises, the invocation ends with the 'request
\* failed' error, whose message contains the description of what was
\* raised; the response is not extracted and completion() was called once.
C7_DispatchFailureNormalized ==
    (completion_result # None /\ completion_result[1].kind = "raise")
        => /\ pc = "done"
           /\ outcome # None
           /\ outcome[1].kind = "raise"
           /\ outcome[1].type = "ToolError"
           /\ HasPrefix(outcome[1].msg, "LLM request failed")
           /\ Contains(outcome[1].msg, completion_result[1].msg)
           /\ ~extracted
           /\ Dispatched

\* completion() raised "timeout"
C7_Witness ==
    /\ completion_result = Some(Raises("Timeout", "timeout"))
    /\ outcome = Some(Raises("ToolError", "LLM request failed: timeout"))
    /\ ~extracted

====
